---- MODULE Spec2Model ----
(***************************************************************************)
(* rivets-core: the injected payload that resolves mangled function names  *)
(* of the host through its PDB and installs the hooks exported by every    *)
(* mod's rivets library (src/src/lib.rs).                                   *)
(*                                                                         *)
(* Spec     the whole entry point rivetslib_setup -> main, one step per     *)
(*          statement of main that can fail or that touches the process.   *)
(* SpecPdb  the symbol loop of PDBCache::new, one step per symbol record.   *)
(* SpecMods one call of extract_all_mods_libs on every mod list.            *)
(***************************************************************************)
EXTENDS Integers, Sequences, FiniteSets, TLC

(* ---------------------------------------------------------------- bounds *)
MaxRuns == 2        \* invocations of rivetslib_setup in one process
MaxMods == 3        \* length of the mod load order
MaxHooks == 2       \* hooks returned by one rivets_finalize
MaxRecords == 2     \* symbol records of the PDB

(* ------------------------------------------------------------ input sets *)
Symbols == {"Foo", "Bar"}                 \* mangled function names
ModNames == {"A", "B", "rivets"}          \* names in the mod load order
Rvas == {4096, 69632}                     \* 0x1000, 0x11000
\* a u64 is its four 16-bit limbs, least significant first
ModuleBases == {<<0, 16384, 1, 0>>,       \* 0x0000_0001_4000_0000
                <<0, 65535, 32758, 0>>}   \* 0x0000_7FF6_FFFF_0000
HookErrors == {<<"detour failed">>}       \* RBoxError texts of a plugin

None == [some |-> FALSE]
Some(x) == [some |-> TRUE, v |-> x]

RECURSIVE SeqsUpTo(_, _)
SeqsUpTo(S, n) ==
    IF n = 0 THEN {<<>>}
    ELSE LET shorter == SeqsUpTo(S, n - 1)
         IN  shorter \cup {Append(s, x) : s \in {t \in shorter : Len(t) = n - 1}, x \in S}

Range(s) == {s[j] : j \in 1..Len(s)}
Distinct(s) == \A a, b \in 1..Len(s) : a # b => s[a] # s[b]

(* ------------------------------------------------------- anyhow::Error   *)
(* An error is its context chain, outermost message first; a message is    *)
(* the sequence of the pieces its format string puts together.             *)
AnyhowError(msg) == <<msg>>
context(e, msg) == <<msg>> \o e
to_string(e) == e[1]
Names(msg, s) == \E j \in 1..Len(msg) : msg[j] = s

(* -------------------------------------------------------- PDBCache::new  *)
(* One symbol record as symbol.parse() and offset.to_rva() see it.         *)
PdbRecords ==
    [kind : {"public"}, function : BOOLEAN, name : Symbols,
     rva : {Some(r) : r \in Rvas} \cup {None}]
    \cup {[kind |-> "other"], [kind |-> "malformed"]}

unwrap_or_default(o) == IF o.some THEN o.v ELSE 0

insert(map, key, value) ==
    [n \in DOMAIN map \cup {key} |-> IF n = key THEN value ELSE map[n]]

EmptyMap == [n \in {} |-> 0]

\* Err(e) => Ok(()): a record that does not parse is passed over
visit_symbol_lenient(symbol_addresses, symbol) ==
    IF symbol.kind = "malformed" THEN [ok |-> TRUE, v |-> symbol_addresses]
    ELSE IF symbol.kind = "public" /\ symbol.function
         THEN [ok |-> TRUE,
               v |-> insert(symbol_addresses, symbol.name, unwrap_or_default(symbol.rva))]
         ELSE [ok |-> TRUE, v |-> symbol_addresses]

\* the closure of for_each: Ok(table) or Err
visit_symbol(symbol_addresses, symbol) ==
    IF symbol.kind = "malformed" THEN [ok |-> FALSE, e |-> AnyhowError(<<"pdb: malformed symbol">>)]
    ELSE IF symbol.kind = "public" /\ symbol.function
         THEN [ok |-> TRUE,
               v |-> insert(symbol_addresses, symbol.name, unwrap_or_default(symbol.rva))]
         ELSE [ok |-> TRUE, v |-> symbol_addresses]

RECURSIVE for_each(_, _)
for_each(symbol_addresses, symbols) ==
    IF symbols = <<>> THEN [ok |-> TRUE, v |-> symbol_addresses]
    ELSE LET r == visit_symbol(symbol_addresses, Head(symbols))
         IN  IF r.ok THEN for_each(r.v, Tail(symbols)) ELSE r

\* what the file system and the process hold when PDBCache::new runs
PdbStages == {"File::open", "PDB::open", "GetModuleHandleA", "global_symbols", "address_map"}

PdbInputs ==
    {[fail |-> stage] : stage \in PdbStages}
    \cup [fail : {"none"}, base : ModuleBases, symbols : SeqsUpTo(PdbRecords, MaxRecords)]

PDBCache_new_result(in) ==
    IF in.fail # "none" THEN [ok |-> FALSE, e |-> AnyhowError(<<in.fail, " failed">>)]
    ELSE LET r == for_each(EmptyMap, in.symbols)
         IN  IF r.ok
             THEN [ok |-> TRUE,
                   v |-> [symbol_addresses |-> r.v, base_address |-> in.base]]
             ELSE r

\* u64::from(x) for a u32 x
u64_from(x) == <<x % 65536, x \div 65536, 0, 0>>

\* a + b on u64; the bases are user-space addresses, the sum stays below 2^64
RECURSIVE add_limbs(_, _, _)
add_limbs(a, b, carry) ==
    IF a = <<>> THEN <<>>
    ELSE LET s == Head(a) + Head(b) + carry
         IN  <<s % 65536>> \o add_limbs(Tail(a), Tail(b), s \div 65536)

add_u64(a, b) == add_limbs(a, b, 0)

get_function_address_rva(self, function_name) ==
    IF function_name \in DOMAIN self.symbol_addresses
    THEN Some(u64_from(self.symbol_addresses[function_name]))
    ELSE None

get_function_address(self, function_name) ==
    IF function_name \in DOMAIN self.symbol_addresses
    THEN Some(add_u64(self.base_address, u64_from(self.symbol_addresses[function_name])))
    ELSE None

(* ------------------------------------------------- extract_all_mods_libs *)
DYNAMIC_LIBRARY_SUFFIX == ".dll"
RIVETS_LIB == "rivets.dll"

\* what current_mod.get_file(RIVETS_LIB) and the later write to disk yield
GetFileResults == {"Ok", "OkWriteFails", "PathDoesNotExist", "ZipNotFound", "ZipOther"}

\* mod_load_order and, for every mod in it, the answer of its get_file
ModListInputs ==
    {[fail |-> stage] : stage \in {"generate_custom", "load"}}
    \cup UNION {[fail : {"none"}, mod_load_order : {order},
                 get_file : [Range(order) -> GetFileResults]] :
                    order \in {s \in SeqsUpTo(ModNames, MaxMods) : Distinct(s)}}

lib_path(mod_name) == <<"temp/rivets", mod_name, DYNAMIC_LIBRARY_SUFFIX>>

\* result.insert(0, ..) instead of result.push(..)
RECURSIVE extract_loop_prepend(_, _, _)
extract_loop_prepend(mod_load_order, get_file, result) ==
    IF mod_load_order = <<>> THEN [ok |-> TRUE, v |-> result]
    ELSE LET mod_name == Head(mod_load_order)
             rest == Tail(mod_load_order)
             lib == get_file[mod_name]
         IN  IF mod_name = "rivets" THEN extract_loop_prepend(rest, get_file, result)
             ELSE IF lib \in {"PathDoesNotExist", "ZipNotFound"}
                  THEN extract_loop_prepend(rest, get_file, result)
             ELSE IF lib = "ZipOther"
                  THEN [ok |-> FALSE, e |-> AnyhowError(<<"zip error">>), written |-> result]
             ELSE IF lib = "OkWriteFails"
                  THEN [ok |-> FALSE, e |-> AnyhowError(<<"io error">>), written |-> result]
             ELSE extract_loop_prepend(rest, get_file,
                                       <<[mod_name |-> mod_name,
                                          lib_path |-> lib_path(mod_name)]>> \o result)

\* the loop without `if mod_name == "rivets" { continue; }`
RECURSIVE extract_loop_with_rivets(_, _, _)
extract_loop_with_rivets(mod_load_order, get_file, result) ==
    IF mod_load_order = <<>> THEN [ok |-> TRUE, v |-> result]
    ELSE LET mod_name == Head(mod_load_order)
             rest == Tail(mod_load_order)
             lib == get_file[mod_name]
         IN  IF lib \in {"PathDoesNotExist", "ZipNotFound"}
             THEN extract_loop_with_rivets(rest, get_file, result)
             ELSE IF lib = "ZipOther"
                  THEN [ok |-> FALSE, e |-> AnyhowError(<<"zip error">>), written |-> result]
             ELSE IF lib = "OkWriteFails"
                  THEN [ok |-> FALSE, e |-> AnyhowError(<<"io error">>), written |-> result]
             ELSE extract_loop_with_rivets(rest, get_file,
                                           Append(result, [mod_name |-> mod_name,
                                                           lib_path |-> lib_path(mod_name)]))

\* the body of the for loop over mod_load_order; result is the Vec built so far
RECURSIVE extract_loop(_, _, _)
extract_loop(mod_load_order, get_file, result) ==
    IF mod_load_order = <<>> THEN [ok |-> TRUE, v |-> result]
    ELSE LET mod_name == Head(mod_load_order)
             rest == Tail(mod_load_order)
             lib == get_file[mod_name]
         IN  IF mod_name = "rivets" THEN extract_loop(rest, get_file, result)
             ELSE IF lib \in {"PathDoesNotExist", "ZipNotFound"}
                  THEN extract_loop(rest, get_file, result)
             ELSE IF lib = "ZipOther"
                  THEN [ok |-> FALSE, e |-> AnyhowError(<<"zip error">>), written |-> result]
             ELSE IF lib = "OkWriteFails"
                  THEN [ok |-> FALSE, e |-> AnyhowError(<<"io error">>), written |-> result]
             ELSE extract_loop(rest, get_file,
                               Append(result, [mod_name |-> mod_name,
                                               lib_path |-> lib_path(mod_name)]))

extract_all_mods_libs(in) ==
    IF in.fail # "none"
    THEN [ok |-> FALSE, e |-> AnyhowError(<<in.fail, " failed">>), written |-> <<>>]
    ELSE extract_loop(in.mod_load_order, in.get_file, <<>>)

\* the mods whose std::fs::write succeeded during the call, in order
files_written(r) ==
    LET entries == IF r.ok THEN r.v ELSE r.written
    IN  [n \in 1..Len(entries) |-> entries[n].mod_name]

(* ------------------------------------------------------- plugin libraries *)
\* an RResult<(), RBoxError> as the install callback returns it
ROk == [ok |-> TRUE]
RErr(e) == [ok |-> FALSE, e |-> e]
RResults == {ROk} \cup {RErr(e) : e \in HookErrors}

\* a RivetsHook: the mangled name; what its callback answers is decided by the
\* plugin when it is called
RivetsHooks == [mangled_name : Symbols]
HookLists == SeqsUpTo(RivetsHooks, MaxHooks)

\* into_result().map_err(Into::into)
into_result(r) == IF r.ok THEN [ok |-> TRUE] ELSE [ok |-> FALSE, e |-> AnyhowError(r.e)]

inject_address_or_base(self, hook) ==
    LET address == get_function_address(self, hook.mangled_name)
    IN  IF address.some THEN [ok |-> TRUE, v |-> address.v]
        ELSE [ok |-> TRUE, v |-> self.base_address]

\* PDBCache::inject up to the call of the hook: the address or the bail!
inject_address(self, hook) ==
    LET address == get_function_address(self, hook.mangled_name)
    IN  IF address.some THEN [ok |-> TRUE, v |-> address.v]
        ELSE [ok |-> FALSE,
              e |-> AnyhowError(<<"Failed to find address for the following mangled function inside the PDB: ",
                                  hook.mangled_name>>)]

finalize_err_msg_anonymous(mod_name) ==
    <<"Failed to get rivets_finalize ABI function for mod ",
      ". Did you forget to call rivets::finalize!()?">>

finalize_err_msg(mod_name) ==
    <<"Failed to get rivets_finalize ABI function for mod ", mod_name,
      ". Did you forget to call rivets::finalize!()?">>

(* ------------------------------------------------------------------ state *)
VARIABLES
    pc,          \* where main stands: idle, the statement to run next, or returned
    runs,        \* invocations of rivetslib_setup so far
    result,      \* Option<String> of the last rivetslib_setup
    pdb_cache,   \* Option<PDBCache> of the current run
    pdb_reads,   \* how often the process opened factorio.pdb
    plugins,     \* Vec returned by extract_all_mods_libs
    i,           \* index into plugins of the outer for loop
    get_hooks,   \* get_hooks[j]: the RVec plugin j returned from rivets_finalize
    k,           \* index of the inner for loop
    loaded,      \* mod names whose Library handle is alive
    installed,   \* hooks whose install callback returned ROk
    calls,       \* install callbacks invoked in this run, in order
    lookups,     \* names handed to get_function_address in this run
    opens,       \* mod names handed to Library::new in this run
    raised,      \* the statement of main whose Err ended this run, or "none"
    records,     \* SpecPdb: the symbol records of the file
    cursor,      \* SpecPdb: records consumed
    table,       \* SpecPdb: Ok(symbol_addresses so far) or Err
    written,     \* mod names whose library this run wrote to temp/rivets
    mod_list,    \* SpecMods: what the ModList of the call holds
    extracted    \* SpecMods: None or Some(result of extract_all_mods_libs)

mainVars == <<pc, runs, result, pdb_cache, pdb_reads, plugins, i, get_hooks, k,
              loaded, installed, calls, lookups, opens, raised, written>>
pdbVars == <<records, cursor, table>>
modVars == <<mod_list, extracted>>
vars == <<pc, runs, result, pdb_cache, pdb_reads, plugins, i, get_hooks, k,
          loaded, installed, calls, lookups, opens, raised, records, cursor, table,
                   written, mod_list, extracted>>

MainInit ==
    /\ pc = "idle"
    /\ runs = 0
    /\ result = None
    /\ pdb_cache = None
    /\ pdb_reads = 0
    /\ plugins = <<>>
    /\ i = 1
    /\ get_hooks = <<>>
    /\ k = 1
    /\ loaded = {}
    /\ installed = {}
    /\ calls = <<>>
    /\ lookups = <<>>
    /\ opens = <<>>
    /\ raised = "none"
    /\ written = <<>>

Init ==
    /\ MainInit
    /\ records = <<>>
    /\ cursor = 0
    /\ table = [ok |-> TRUE, v |-> EmptyMap]
    /\ mod_list = [fail |-> "load"]
    /\ extracted = None

(* ---------------------------------------------------------------- actions *)
\* rivetslib_setup is called: main starts with fresh locals
rivetslib_setup ==
    /\ pc \in {"idle", "returned"}
    /\ runs < MaxRuns
    /\ runs' = runs + 1
    /\ pc' = "get_bin_folder"
    /\ result' = None
    /\ pdb_cache' = None
    /\ plugins' = <<>>
    /\ i' = 1
    /\ get_hooks' = <<>>
    /\ k' = 1
    /\ calls' = <<>>
    /\ lookups' = <<>>
    /\ opens' = <<>>
    /\ raised' = "none"
    /\ written' = <<>>
    /\ UNCHANGED <<pdb_reads, loaded, installed, records, cursor, table,
                   mod_list, extracted>>

Raise_and_continue(e) ==
    /\ pc' = pc
    /\ result' = Some(to_string(e))
    /\ raised' = pc

\* main returns Err(e) through `?`: the locals are dropped, the payload
\* procedure turns the error into Some(e.to_string())
Raise(e) ==
    /\ pc' = "returned"
    /\ result' = Some(to_string(e))
    /\ raised' = pc

\* main goes on to discovery first and leaves the resolver for later
get_bin_folder_then_extract ==
    /\ pc = "get_bin_folder"
    /\ \/ /\ pc' = "extract_all_mods_libs"
          /\ UNCHANGED <<result, raised>>
       \/ Raise(AnyhowError(<<"Failed to get binary folder">>))
    /\ UNCHANGED <<runs, pdb_cache, pdb_reads, plugins, i, get_hooks, k, loaded,
                   installed, calls, lookups, opens, records, cursor, table,
                   written, mod_list, extracted>>

\* let pdb_path = get_bin_folder()?.join("factorio.pdb");
get_bin_folder ==
    /\ pc = "get_bin_folder"
    /\ \/ /\ pc' = "PDBCache_new"
          /\ UNCHANGED <<result, raised>>
       \/ Raise(AnyhowError(<<"Failed to get binary folder">>))
    /\ UNCHANGED <<runs, pdb_cache, pdb_reads, plugins, i, get_hooks, k, loaded,
                   installed, calls, lookups, opens, records, cursor, table,
                   written, mod_list, extracted>>

\* let pdb_cache = PDBCache::new(pdb_path, "factorio.exe")?;
PDBCache_new ==
    /\ pc = "PDBCache_new"
    /\ pdb_reads' = pdb_reads + 1
    /\ \E in \in PdbInputs :
          LET r == PDBCache_new_result(in)
          IN  IF r.ok
              THEN /\ pdb_cache' = Some(r.v)
                   /\ pc' = "extract_all_mods_libs"
                   /\ UNCHANGED <<result, raised>>
              ELSE /\ Raise(r.e)
                   /\ UNCHANGED pdb_cache
    /\ UNCHANGED <<runs, plugins, i, get_hooks, k, loaded, installed, calls,
                   lookups, opens, records, cursor, table,
                   written, mod_list, extracted>>

\* a failed extraction is reported but the libraries written so far are loaded
extract_mods_partial ==
    /\ pc = "extract_all_mods_libs"
    /\ \E in \in ModListInputs :
          LET r == extract_all_mods_libs(in)
          IN  IF r.ok
              THEN /\ plugins' = r.v
                   /\ written' = files_written(r)
                   /\ UNCHANGED <<result, raised>>
              ELSE /\ plugins' = r.written
                   /\ written' = files_written(r)
                   /\ result' = Some(to_string(r.e))
                   /\ raised' = pc
    /\ pc' = "for_mods"
    /\ i' = 1
    /\ UNCHANGED <<runs, pdb_cache, pdb_reads, get_hooks, k, loaded, installed,
                   calls, lookups, opens, records, cursor, table,
                   mod_list, extracted>>

\* for (mod_name, dll_so_file) in extract_all_mods_libs(read_path, write_path)?
extract_mods ==
    /\ pc = "extract_all_mods_libs"
    /\ \E in \in ModListInputs :
          LET r == extract_all_mods_libs(in)
          IN  IF r.ok
              THEN /\ plugins' = r.v
                   /\ written' = files_written(r)
                   /\ pc' = "for_mods"
                   /\ UNCHANGED <<result, raised>>
              ELSE /\ Raise(r.e)
                   /\ written' = files_written(r)
                   /\ UNCHANGED plugins
    /\ i' = 1
    /\ UNCHANGED <<runs, pdb_cache, pdb_reads, get_hooks, k, loaded, installed,
                   calls, lookups, opens, records, cursor, table,
                   mod_list, extracted>>

\* what Library::new answers when it fails (libloading's message)
LibraryErrors == {<<"LoadLibraryExW failed">>}

\* a failed Library::new is passed over and the loop goes on with the next plugin
Library_new_skip ==
    /\ pc = "for_mods"
    /\ i <= Len(plugins)
    /\ \/ /\ opens' = Append(opens, [mod_name |-> plugins[i].mod_name, ok |-> TRUE])
          /\ loaded' = loaded \cup {plugins[i].mod_name}
          /\ pc' = "rivets_finalize"
          /\ UNCHANGED <<result, raised, i, get_hooks>>
       \/ /\ opens' = Append(opens, [mod_name |-> plugins[i].mod_name, ok |-> FALSE])
          /\ get_hooks' = Append(get_hooks, <<>>)
          /\ i' = i + 1
          /\ UNCHANGED <<pc, result, raised, loaded>>
    /\ UNCHANGED <<runs, pdb_cache, pdb_reads, plugins, k, installed,
                   calls, lookups, records, cursor, table,
                   written, mod_list, extracted>>

\* the result of Library::new is not looked at before the entry point is asked for
Library_new_unchecked ==
    /\ pc = "for_mods"
    /\ i <= Len(plugins)
    /\ \E ok \in BOOLEAN :
          /\ opens' = Append(opens, [mod_name |-> plugins[i].mod_name, ok |-> ok])
          /\ loaded' = IF ok THEN loaded \cup {plugins[i].mod_name} ELSE loaded
    /\ pc' = "rivets_finalize"
    /\ UNCHANGED <<runs, result, raised, pdb_cache, pdb_reads, plugins, i, get_hooks, k,
                   installed, calls, lookups, records, cursor, table,
                   written, mod_list, extracted>>

\* let dll_so_file = Library::new(dll_so_file)?;
Library_new ==
    /\ pc = "for_mods"
    /\ i <= Len(plugins)
    /\ \/ /\ opens' = Append(opens, [mod_name |-> plugins[i].mod_name, ok |-> TRUE])
          /\ loaded' = loaded \cup {plugins[i].mod_name}
          /\ pc' = "rivets_finalize"
          /\ UNCHANGED <<result, raised>>
       \/ \E e \in LibraryErrors :
             /\ opens' = Append(opens, [mod_name |-> plugins[i].mod_name, ok |-> FALSE])
             /\ Raise(AnyhowError(e))
             /\ UNCHANGED loaded
    /\ UNCHANGED <<runs, pdb_cache, pdb_reads, plugins, i, get_hooks, k, installed,
                   calls, lookups, records, cursor, table,
                   written, mod_list, extracted>>

\* dll_so_file.get(b"rivets_finalize\0").context(err_msg)? and the call get_hooks()
rivets_finalize ==
    /\ pc = "rivets_finalize"
    /\ \/ \E hooks \in HookLists :
             /\ get_hooks' = Append(get_hooks, hooks)
             /\ k' = 1
             /\ pc' = "for_hooks"
             /\ UNCHANGED <<result, raised, loaded>>
       \/ /\ Raise(context(AnyhowError(<<"GetProcAddress failed">>),
                           finalize_err_msg(plugins[i].mod_name)))
          /\ loaded' = loaded \ {plugins[i].mod_name}      \* drop(dll_so_file)
          /\ UNCHANGED <<get_hooks, k>>
    /\ UNCHANGED <<runs, pdb_cache, pdb_reads, plugins, i, installed, calls,
                   lookups, opens, records, cursor, table,
                   written, mod_list, extracted>>

nth_hook_reversed(hooks, n) == hooks[Len(hooks) + 1 - n]

\* for hook in get_hooks(): the n-th hook the iterator yields
nth_hook(hooks, n) == hooks[n]

after_hook_rollback(hooks_installed, mod_name, hook, r) ==
    IF r.ok
    THEN hooks_installed \cup {[mod_name |-> mod_name, mangled_name |-> hook.mangled_name]}
    ELSE {h \in hooks_installed : h.mod_name # mod_name}

\* what a call of (hook.hook)(address) leaves in the process: the detour is in
\* place when the callback answers ROk; nothing is ever taken out again
after_hook(hooks_installed, mod_name, hook, r) ==
    IF r.ok
    THEN hooks_installed \cup {[mod_name |-> mod_name, mangled_name |-> hook.mangled_name]}
    ELSE hooks_installed

\* pdb_cache.inject(&hook)?; one turn of the inner for loop
inject ==
    /\ pc = "for_hooks"
    /\ k <= Len(get_hooks[i])
    /\ LET hook == nth_hook(get_hooks[i], k)
           mod_name == plugins[i].mod_name
           address == inject_address(pdb_cache.v, hook)
       IN  /\ lookups' = Append(lookups, [mod |-> i, name |-> hook.mangled_name])
           /\ IF ~address.ok
              THEN /\ Raise(address.e)
                   /\ loaded' = loaded \ {mod_name}         \* drop(dll_so_file)
                   /\ UNCHANGED <<calls, installed, k>>
              ELSE \E answer \in RResults :                 \* (hook.hook)(address)
                   LET r == into_result(answer)
                   IN  /\ calls' = Append(calls, [mod |-> i,
                                                  mod_name |-> mod_name,
                                                  mangled_name |-> hook.mangled_name,
                                                  address |-> address.v,
                                                  ok |-> r.ok])
                       /\ installed' = after_hook(installed, mod_name, hook, r)
                       /\ IF r.ok
                          THEN /\ k' = k + 1
                               /\ UNCHANGED <<pc, result, raised, loaded>>
                          ELSE /\ Raise(r.e)
                               /\ loaded' = loaded \ {mod_name}   \* drop(dll_so_file)
                               /\ UNCHANGED k
    /\ UNCHANGED <<runs, pdb_cache, pdb_reads, plugins, i, get_hooks, opens,
                   records, cursor, table,
                   written, mod_list, extracted>>

\* the end of the outer loop's body: dll_so_file goes out of scope
end_of_body ==
    /\ pc = "for_hooks"
    /\ k > Len(get_hooks[i])
    /\ loaded' = loaded \ {plugins[i].mod_name}
    /\ i' = i + 1
    /\ pc' = "for_mods"
    /\ UNCHANGED <<runs, result, pdb_cache, pdb_reads, plugins, get_hooks, k,
                   installed, calls, lookups, opens, raised, records, cursor, table,
                   written, mod_list, extracted>>

\* Ok(()) => None
main_ok ==
    /\ pc = "for_mods"
    /\ i > Len(plugins)
    /\ pc' = "returned"
    /\ result' = None
    /\ UNCHANGED <<runs, pdb_cache, pdb_reads, plugins, i, get_hooks, k, loaded,
                   installed, calls, lookups, opens, raised, records, cursor, table,
                   written, mod_list, extracted>>

Next ==
    \/ rivetslib_setup
    \/ get_bin_folder
    \/ PDBCache_new
    \/ extract_mods
    \/ Library_new
    \/ rivets_finalize
    \/ inject
    \/ end_of_body
    \/ main_ok

Spec == Init /\ [][Next]_vars

(* ------------------------------------------- SpecPdb: the symbol loop     *)
PdbInit ==
    /\ MainInit
    /\ records \in SeqsUpTo(PdbRecords, MaxRecords)
    /\ cursor = 0
    /\ table = [ok |-> TRUE, v |-> EmptyMap]
    /\ mod_list = [fail |-> "load"]
    /\ extracted = None

\* one call of the for_each closure
next_symbol ==
    /\ cursor < Len(records)
    /\ table.ok
    /\ cursor' = cursor + 1
    /\ table' = visit_symbol(table.v, records[cursor + 1])
    /\ UNCHANGED <<records, pc, runs, result, pdb_cache, pdb_reads, plugins, i,
                   get_hooks, k, loaded, installed, calls, lookups, opens, raised,
                   written, mod_list, extracted>>

PdbNext == next_symbol

SpecPdb == PdbInit /\ [][PdbNext]_vars

(* ------------------------------------------- SpecMods: discovery          *)
ModsInit ==
    /\ MainInit
    /\ records = <<>>
    /\ cursor = 0
    /\ table = [ok |-> TRUE, v |-> EmptyMap]
    /\ mod_list \in ModListInputs
    /\ extracted = None

\* extract_all_mods_libs(read_path, write_path) is called and returns
call_extract ==
    /\ ~extracted.some
    /\ extracted' = Some(extract_all_mods_libs(mod_list))
    /\ UNCHANGED <<mod_list, records, cursor, table, pc, runs, result, pdb_cache,
                   pdb_reads, plugins, i, get_hooks, k, loaded, installed, calls,
                   lookups, opens, raised, written>>

ModsNext == call_extract

SpecMods == ModsInit /\ [][ModsNext]_vars

(* ------------------------------------------------------------ properties *)
failed == raised # "none"

\* an Err of one of the four kinds has happened in the current run
ErrorSeen ==
    \/ failed
    \/ \E n \in 1..Len(opens) : ~opens[n].ok
    \/ \E n \in 1..Len(lookups) : lookups[n].name \notin DOMAIN pdb_cache.v.symbol_addresses
    \/ \E n \in 1..Len(calls) : ~calls[n].ok

\* the install callbacks main owes, plugin by plugin, hook by hook
RECURSIVE Schedule(_)
Schedule(j) ==
    IF j = 0 THEN <<>>
    ELSE Schedule(j - 1) \o
         [h \in 1..Len(get_hooks[j]) |->
             [mod |-> j, mod_name |-> plugins[j].mod_name,
              mangled_name |-> get_hooks[j][h].mangled_name]]

Callback(c) == [mod |-> c.mod, mod_name |-> c.mod_name, mangled_name |-> c.mangled_name]

\* C1: the install callbacks of a run are invoked in the plugin order that
\* extract_all_mods_libs returned and, within a plugin, in the order of its RVec:
\* the calls made so far are always an initial piece of that schedule (nothing
\* reordered, interleaved or repeated), and a run that returns None made them all.
C1_OrderPreserved ==
    LET schedule == Schedule(Len(get_hooks))
    IN  /\ Len(calls) <= Len(schedule)
        /\ \A n \in 1..Len(calls) : Callback(calls[n]) = schedule[n]
        /\ (pc = "returned" /\ ~result.some) =>
              /\ Len(get_hooks) = Len(plugins)
              /\ Len(calls) = Len(schedule)

C1_Witness ==
    /\ pc = "returned"
    /\ ~result.some
    /\ Len(plugins) = 2
    /\ Len(get_hooks[1]) = 2
    /\ get_hooks[1][1] # get_hooks[1][2]
    /\ Len(get_hooks[2]) >= 1
    /\ Len(calls) >= 3

\* C2: once an error has happened in a run (Library::new, the entry point, an
\* unresolved symbol, an install callback), main has returned Some(message) and
\* within that run no library is opened, no symbol looked up and no callback
\* invoked any more.
C2_FailFast ==
    [][/\ ErrorSeen' => (pc' = "returned" /\ result'.some)
       /\ (ErrorSeen /\ runs' = runs) =>
              UNCHANGED <<opens, lookups, calls, loaded, installed, pc, result>>]_vars

C2_Witness ==
    /\ pc = "returned"
    /\ raised = "for_hooks"
    /\ Len(plugins) = 2
    /\ i = 1
    /\ k < Len(get_hooks[1])
    /\ Len(opens) = 1
    /\ result.some

\* C3: no step ever takes a hook out of the set of installed hooks, and every
\* callback of the run that answered ROk is still installed, also when the run
\* has returned an error.
C3_NoRollback ==
    [][/\ installed \subseteq installed'
       /\ \A n \in 1..Len(calls') :
             calls'[n].ok =>
                [mod_name |-> calls'[n].mod_name,
                 mangled_name |-> calls'[n].mangled_name] \in installed']_vars

C3_Witness ==
    /\ pc = "returned"
    /\ result.some
    /\ raised = "for_hooks"
    /\ i = 2
    /\ \E n \in 1..Len(calls) :
          /\ calls[n].ok
          /\ calls[n].mod = 1
          /\ [mod_name |-> calls[n].mod_name,
              mangled_name |-> calls[n].mangled_name] \in installed

\* C4: whenever a hook is installed, the library of the plugin that supplied it
\* is still loaded.
C4_LibraryOutlivesHooks ==
    \A h \in installed : h.mod_name \in loaded

\* C5: a hook whose mangled name is not in the symbol table ends the run: it is
\* the last name looked up, its callback is not invoked, main has returned and
\* the message handed out by rivetslib_setup contains the name.
C5_UnresolvedIsFatal ==
    \A n \in 1..Len(lookups) :
        lookups[n].name \notin DOMAIN pdb_cache.v.symbol_addresses =>
            /\ n = Len(lookups)
            /\ Len(calls) = n - 1
            /\ pc = "returned"
            /\ result.some
            /\ Names(result.v, lookups[n].name)

C5_Witness ==
    /\ pc = "returned"
    /\ Len(lookups) >= 2
    /\ lookups[Len(lookups)].name \notin DOMAIN pdb_cache.v.symbol_addresses
    /\ Len(calls) = Len(lookups) - 1
    /\ result.some

\* a - b on u64 limbs, with borrow
RECURSIVE sub_limbs(_, _, _)
sub_limbs(a, b, borrow) ==
    IF a = <<>> THEN <<>>
    ELSE LET d == Head(a) - Head(b) - borrow
         IN  <<d % 65536>> \o sub_limbs(Tail(a), Tail(b), IF d < 0 THEN 1 ELSE 0)

FooAt0x1000 == [symbol_addresses |-> [n \in {"Foo"} |-> 4096],
                base_address |-> <<0, 16384, 1, 0>>]

\* C6: the address handed to an install callback is the module base plus the
\* rva the table holds for the hook's name (the difference of address and base
\* is the rva), and the name is the one just looked up; a name that is not in
\* the table gets no callback; the table {"Foo": 0x1000} at base 0x140000000
\* resolves Foo to 0x140001000 and Bar to None; and the resolver is the same
\* before and after every turn of the loop.
C6_AddressIsBasePlusRva ==
    [][/\ (runs' = runs /\ calls' # calls) =>
             LET c == calls'[Len(calls')]
                 self == pdb_cache.v
             IN  /\ Len(calls') = Len(calls) + 1
                 /\ lookups' = Append(lookups, [mod |-> c.mod, name |-> c.mangled_name])
                 /\ c.mangled_name \in DOMAIN self.symbol_addresses
                 /\ sub_limbs(c.address, self.base_address, 0)
                       = u64_from(self.symbol_addresses[c.mangled_name])
       /\ (runs' = runs /\ lookups' # lookups /\ calls' = calls) =>
             lookups'[Len(lookups')].name \notin DOMAIN pdb_cache.v.symbol_addresses
       /\ get_function_address(FooAt0x1000, "Foo") = Some(<<4096, 16384, 1, 0>>)
       /\ get_function_address(FooAt0x1000, "Bar") = None
       /\ pc = "for_hooks" => pdb_cache' = pdb_cache]_vars

C6_Witness ==
    /\ Len(calls) >= 2
    /\ calls[1].mangled_name = "Foo"
    /\ calls[1].address = <<4096, 16384, 1, 0>>
    /\ calls[2].address # calls[1].address

\* C7: the process opens the symbol file at most once, however often
\* rivetslib_setup is invoked.
C7_ConstructedOnce ==
    pdb_reads <= 1

\* C8: a name all of whose public function records have an offset that to_rva
\* cannot convert is not a key of the symbol table.
C8_UnconvertibleAbsent ==
    table.ok =>
        \A name \in Symbols :
            (\A n \in 1..cursor :
                 (records[n].kind = "public" /\ records[n].function
                  /\ records[n].name = name) => ~records[n].rva.some)
            => name \notin DOMAIN table.v

\* C9: a library without rivets_finalize ends the run with a message that
\* contains the plugin's name, before any descriptor of it is obtained or
\* called; a plugin that returns an empty RVec gets no callback and the run
\* never ends at it, it goes on to the next plugin.
C9_MissingEntryPoint ==
    /\ raised = "rivets_finalize" =>
          /\ pc = "returned"
          /\ result.some
          /\ Names(result.v, plugins[i].mod_name)
          /\ Len(get_hooks) = i - 1
          /\ \A n \in 1..Len(calls) : calls[n].mod # i
    /\ \A j \in 1..Len(get_hooks) :
          get_hooks[j] = <<>> =>
              /\ \A n \in 1..Len(calls) : calls[n].mod # j
              /\ pc = "returned" => i > j

C9_Witness ==
    /\ raised = "rivets_finalize"
    /\ i = 2
    /\ get_hooks = <<(<<>>)>>
    /\ result = Some(finalize_err_msg(plugins[2].mod_name))

\* C10: when an install callback answers RErr, the message handed out by
\* rivetslib_setup contains the hook's mangled name and the plugin's name.
C10_InstallFailureNamed ==
    (Len(calls) > 0 /\ ~calls[Len(calls)].ok) =>
        /\ result.some
        /\ Names(result.v, calls[Len(calls)].mangled_name)
        /\ Names(result.v, calls[Len(calls)].mod_name)

\* C11: when Library::new fails, the message handed out by rivetslib_setup
\* contains the name of the plugin whose library was being opened.
C11_OpenFailureNamed ==
    (Len(opens) > 0 /\ ~opens[Len(opens)].ok) =>
        /\ pc = "returned"
        /\ result.some
        /\ Names(result.v, opens[Len(opens)].mod_name)

\* the number of hooks of the plugins asked so far
RECURSIVE HooksUpTo(_)
HooksUpTo(j) == IF j = 0 THEN 0 ELSE HooksUpTo(j - 1) + Len(get_hooks[j])

\* everything main does has been done and nothing has failed
AllSucceeded ==
    /\ raised = "none"
    /\ pdb_cache.some
    /\ Len(written) = Len(plugins)
    /\ Len(opens) = Len(plugins)
    /\ \A n \in 1..Len(opens) : opens[n].ok
    /\ Len(get_hooks) = Len(plugins)
    /\ Len(lookups) = HooksUpTo(Len(get_hooks))
    /\ \A n \in 1..Len(lookups) : lookups[n].name \in DOMAIN pdb_cache.v.symbol_addresses
    /\ Len(calls) = Len(lookups)
    /\ \A n \in 1..Len(calls) : calls[n].ok

C13_LookupAfterLoad ==
    \A n \in 1..Len(lookups) :
        LET j == lookups[n].mod
        IN  /\ j <= Len(opens)
            /\ opens[j].ok
            /\ opens[j].mod_name = plugins[j].mod_name
            /\ j <= Len(get_hooks)
            /\ \E h \in 1..Len(get_hooks[j]) :
                  get_hooks[j][h].mangled_name = lookups[n].name

C13_Witness ==
    /\ Len(lookups) >= 3
    /\ lookups[1].mod = 1
    /\ lookups[Len(lookups)].mod = 2

ModNamesOf(entries) == [n \in 1..Len(entries) |-> entries[n].mod_name]

\* C14 as stated: a successful discovery returns, in load order, every mod
\* whose get_file found a rivets library.
C14_EveryArtifactListed ==
    (extracted.some /\ mod_list.fail = "none" /\ extracted.v.ok) =>
        LET has_artifact(m) == mod_list.get_file[m] = "Ok"
        IN  ModNamesOf(extracted.v.v) = SelectSeq(mod_list.mod_load_order, has_artifact)

\* C14, amended: discovery fails exactly if the mod list cannot be read or a
\* mod other than "rivets" answers get_file with another error or cannot be
\* written; otherwise it returns, in load order and once each, every mod other
\* than "rivets" whose get_file found a rivets library, with the path
\* temp/rivets/<mod><suffix>; mods without the library are left out.
C14_DiscoveryIsOrderedSelection ==
    extracted.some =>
        LET r == extracted.v
        IN  IF mod_list.fail # "none" THEN ~r.ok
            ELSE LET order == mod_list.mod_load_order
                     listed(m) == m # "rivets" /\ mod_list.get_file[m] = "Ok"
                     breaks(m) == /\ m # "rivets"
                                  /\ mod_list.get_file[m] \in {"ZipOther", "OkWriteFails"}
                 IN  /\ r.ok <=> ~(\E m \in Range(order) : breaks(m))
                     /\ r.ok =>
                           /\ ModNamesOf(r.v) = SelectSeq(order, listed)
                           /\ Distinct(r.v)
                           /\ \A n \in 1..Len(r.v) :
                                 r.v[n].lib_path
                                    = <<"temp/rivets", r.v[n].mod_name, DYNAMIC_LIBRARY_SUFFIX>>

C14_Witness ==
    /\ extracted.some
    /\ mod_list.fail = "none"
    /\ Len(mod_list.mod_load_order) = 3
    /\ mod_list.mod_load_order[1] = "B"
    /\ mod_list.mod_load_order[3] = "A"
    /\ extracted.v.ok
    /\ ModNamesOf(extracted.v.v) = <<"B", "A">>

\* the public function records among the first n
FunctionRecords(n) ==
    {m \in 1..n : records[m].kind = "public" /\ records[m].function}

Malformed == {m \in 1..Len(records) : records[m].kind = "malformed"}

\* C15: the loop over the symbol records ends with Err at the first record that
\* does not parse, and then PDBCache::new returns Err for every base (no
\* resolver); while it is Ok, the keys of the table are names of public function
\* records only, and without a malformed record the table the loop ends with is
\* the one of the resolver.
C15_MalformedAbortsBuild ==
    /\ table.ok =>
          /\ \A m \in 1..cursor : records[m].kind # "malformed"
          /\ DOMAIN table.v \subseteq {records[m].name : m \in FunctionRecords(cursor)}
    /\ ~table.ok =>
          /\ records[cursor].kind = "malformed"
          /\ \A m \in Malformed : cursor <= m
    /\ \A base \in ModuleBases :
          LET new == PDBCache_new_result([fail |-> "none", base |-> base, symbols |-> records])
          IN  /\ new.ok <=> Malformed = {}
              /\ (new.ok /\ cursor = Len(records)) =>
                    (table.ok /\ new.v.symbol_addresses = table.v)

C15_Witness ==
    /\ ~table.ok
    /\ cursor = 2
    /\ records[1].kind = "public"
    /\ records[1].function

\* C16: a name that has public function records with a convertible offset maps
\* to the rva of the last of them.
C16_LastRecordWins ==
    table.ok =>
        \A name \in Symbols :
            LET convertible == {m \in FunctionRecords(cursor) :
                                   records[m].name = name /\ records[m].rva.some}
            IN  convertible # {} =>
                    /\ name \in DOMAIN table.v
                    /\ table.v[name]
                          = records[CHOOSE m \in convertible :
                                       \A o \in convertible : o <= m].rva.v

\* C17: as long as the run has no resolver, nothing has been extracted, opened,
\* looked up or called in it, and a run that get_bin_folder or PDBCache::new
\* ended has returned Some(message) in that state.
C17_ResolverFirst ==
    /\ ~pdb_cache.some =>
          /\ written = <<>>
          /\ plugins = <<>>
          /\ opens = <<>>
          /\ loaded = {}
          /\ lookups = <<>>
          /\ calls = <<>>
    /\ raised \in {"get_bin_folder", "PDBCache_new"} =>
          /\ ~pdb_cache.some
          /\ pc = "returned"
          /\ result.some

C17_Witness ==
    /\ pc = "returned"
    /\ raised = "PDBCache_new"
    /\ result.some
    /\ pdb_reads = runs

\* C18: a library is opened only after extract_all_mods_libs has returned Ok,
\* with every listed library written; a run that extraction ended has returned
\* Some(message) without opening a library or calling a hook, whatever it had
\* already written.
C18_ExtractionBeforeLoad ==
    /\ opens # <<>> =>
          /\ raised # "extract_all_mods_libs"
          /\ written = ModNamesOf(plugins)
    /\ raised = "extract_all_mods_libs" =>
          /\ pc = "returned"
          /\ result.some
          /\ plugins = <<>>
          /\ opens = <<>>
          /\ loaded = {}
          /\ lookups = <<>>
          /\ calls = <<>>

C18_Witness ==
    /\ raised = "extract_all_mods_libs"
    /\ pc = "returned"
    /\ written = <<"A">>
    /\ result.some

\* C19: discovery never lists or writes the mod named "rivets", and it returns
\* what it returns for the load order without that mod.
C19_RivetsNeverAPlugin ==
    (extracted.some /\ mod_list.fail = "none") =>
        LET r == extracted.v
            other(m) == m # "rivets"
        IN  /\ "rivets" \notin Range(files_written(r))
            /\ r.ok => "rivets" \notin Range(ModNamesOf(r.v))
            /\ r = extract_all_mods_libs(
                      [fail |-> "none",
                       mod_load_order |-> SelectSeq(mod_list.mod_load_order, other),
                       get_file |-> mod_list.get_file])

C19_Witness ==
    /\ extracted.some
    /\ mod_list.fail = "none"
    /\ mod_list.mod_load_order = <<"A", "rivets", "B">>
    /\ mod_list.get_file["rivets"] = "Ok"
    /\ extracted.v.ok
    /\ ModNamesOf(extracted.v.v) = <<"A", "B">>

TypeOK ==
    /\ pc \in {"idle", "get_bin_folder", "PDBCache_new", "extract_all_mods_libs",
               "for_mods", "rivets_finalize", "for_hooks", "returned"}
    /\ runs \in 0..MaxRuns

====
